---- MODULE Spec2Model ----
(***************************************************************************)
(* Model of the ownership / allocation accounting engine of the family     *)
(* investment tracker (src/lib/calculations.ts).                            *)
(*                                                                         *)
(* The engine is a set of pure functions over a ledger snapshot            *)
(* (CalculationData).  The state of the model is one snapshot, drawn in    *)
(* Init from bounded sets, together with the last call made on it and      *)
(* what that call returned.  One action per exported function.             *)
(*                                                                         *)
(* Numbers.  The source computes with IEEE doubles.  The model computes    *)
(* with exact rationals [n, d] in lowest terms with d > 0, extended with   *)
(* the three non-finite values a JavaScript division can produce:          *)
(*   [n |-> 1, d |-> 0] = Infinity, [n |-> -1, d |-> 0] = -Infinity,       *)
(*   [n |-> 0, d |-> 0] = NaN.                                             *)
(* Rounding error of doubles is therefore outside the model.               *)
(***************************************************************************)
EXTENDS Integers, Sequences, FiniteSets, TLC

(***************************************************************************)
(* Bounds of the model.                                                    *)
(***************************************************************************)
MaxMembers == 2
MaxStocks == 2
MaxContribs == 2
MaxTx == 2
MaxAllocs == 2
MaxQty == 2
MaxAmount == 2
PctSteps == 2

(***************************************************************************)
(* JavaScript number arithmetic on exact rationals.                        *)
(***************************************************************************)
Abs(x) == IF x < 0 THEN -x ELSE x

Sgn(x) == IF x > 0 THEN 1 ELSE IF x < 0 THEN -1 ELSE 0

RECURSIVE GCD(_, _)
GCD(a, b) == IF b = 0 THEN a ELSE GCD(b, a % b)

Norm(n, d) ==
    IF d = 0 THEN [n |-> Sgn(n), d |-> 0]
    ELSE LET g == GCD(Abs(n), Abs(d))
         IN  [n |-> (Sgn(d) * n) \div g, d |-> Abs(d) \div g]

Num(k) == [n |-> k, d |-> 1]

Zero == Num(0)

Hundred == Num(100)

NaN == [n |-> 0, d |-> 0]

IsFinite(a) == a.d # 0

\* a + b
Add(a, b) ==
    IF a.d # 0 /\ b.d # 0 THEN Norm(a.n * b.d + b.n * a.d, a.d * b.d)
    ELSE IF a.d = 0 /\ b.d = 0 THEN (IF a.n = b.n THEN a ELSE NaN)
    ELSE IF a.d = 0 THEN a ELSE b

Neg(a) == [n |-> -a.n, d |-> a.d]

\* a - b
Sub(a, b) == Add(a, Neg(b))

\* a * b
Mul(a, b) == Norm(a.n * b.n, a.d * b.d)

\* a / b  (x / 0 is Infinity, -Infinity or NaN, never an exception)
Div(a, b) ==
    Norm(a.n * b.d * (IF b.n < 0 THEN -1 ELSE 1), a.d * Abs(b.n))

\* a > 0
GtZero(a) == a.n > 0

\* a === 0
EqZero(a) == a.n = 0 /\ a.d # 0

\* a || 0  for a number a (0 and NaN are falsy)
OrZero(a) == IF a.n = 0 THEN Zero ELSE a

(***************************************************************************)
(* JavaScript Map: the entries in insertion order.                         *)
(***************************************************************************)
MapHas(m, key) == \E i \in DOMAIN m : m[i].k = key

MapGet(m, key) == m[CHOOSE i \in DOMAIN m : m[i].k = key].v

MapSet(m, key, val) ==
    IF MapHas(m, key)
    THEN [i \in DOMAIN m |-> IF m[i].k = key THEN [k |-> key, v |-> val] ELSE m[i]]
    ELSE Append(m, [k |-> key, v |-> val])

MapKeys(m) == {m[i].k : i \in DOMAIN m}

\* map.get(key) || 0  for a Map of numbers
GetOrZero(m, key) == IF MapHas(m, key) THEN OrZero(MapGet(m, key)) ELSE Zero

\* outer.get(k1)?.get(k2) || 0  for a Map of Maps of numbers
GetGetOrZero(m, k1, k2) == IF MapHas(m, k1) THEN GetOrZero(MapGet(m, k1), k2) ELSE Zero

(***************************************************************************)
(* The snapshot (CalculationData), the last call and its result, and the   *)
(* new-transaction form that writes transactions and allocations.          *)
(***************************************************************************)
VARIABLES members, contributions, stocks, transactions, allocations, call, result, form

vars == <<members, contributions, stocks, transactions, allocations, call, result, form>>

data == [members |-> members, contributions |-> contributions, stocks |-> stocks,
         transactions |-> transactions, allocations |-> allocations]

AllMemberIds == <<"m1", "m2", "m3", "m4">>

AllStockIds == <<"s1", "s2", "s3", "s4">>

AllTxIds == <<"t1", "t2", "t3", "t4">>

MemberIds == {AllMemberIds[i] : i \in 1..MaxMembers}

StockIds == {AllStockIds[i] : i \in 1..MaxStocks}

TxIds == {AllTxIds[i] : i \in 1..MaxTx}


\* current_price: number | null
Null == [n |-> 0, d |-> -1]

\* a slip that parses the price instead: parseFloat(null) is NaN
PriceParsed(p) == IF p = Null THEN NaN ELSE p

\* stock.current_price || 0
PriceOrZero(p) == IF p = Null THEN Zero ELSE OrZero(p)

(***************************************************************************)
(* Array.prototype.reduce / forEach with an accumulator.                   *)
(***************************************************************************)
RECURSIVE Reduce(_, _, _)
Reduce(Op(_, _), acc, s) ==
    IF s = <<>> THEN acc ELSE Reduce(Op, Op(acc, Head(s)), Tail(s))

\* .reduce((sum, x) => sum + x.amount, 0)
SumAmount(s) == Reduce(LAMBDA sum, x : Add(sum, x.amount), Zero, s)

\* transactions.filter((t) => t.type === type).map((t) => t.id), as a Set
TransactionIdsOfType(d, type) ==
    {d.transactions[i].id : i \in {j \in DOMAIN d.transactions : d.transactions[j].type = type}}

(***************************************************************************)
(* calculateMemberCash                                                     *)
(***************************************************************************)
\* a slip that forgets to return the sale proceeds to the member
AvailableCashWithoutSells(totalContributions, totalBuys, totalSells) ==
    Sub(totalContributions, totalBuys)

\* a slip that corrects an overdrawn balance to zero
AvailableCashClamped(totalContributions, totalBuys, totalSells) ==
    IF GtZero(Add(Sub(totalContributions, totalBuys), totalSells))
    THEN Add(Sub(totalContributions, totalBuys), totalSells) ELSE Zero

\* available_cash: totalContributions - totalBuys + totalSells
AvailableCash(totalContributions, totalBuys, totalSells) ==
    Add(Sub(totalContributions, totalBuys), totalSells)

MemberCashPool(d, member) ==
    LET totalContributions ==
            SumAmount(SelectSeq(d.contributions, LAMBDA c : c.member_id = member.id))
        buyTransactionIds == TransactionIdsOfType(d, "buy")
        totalBuys ==
            SumAmount(SelectSeq(d.allocations,
                LAMBDA a : a.member_id = member.id /\ a.transaction_id \in buyTransactionIds))
        sellTransactionIds == TransactionIdsOfType(d, "sell")
        totalSells ==
            SumAmount(SelectSeq(d.allocations,
                LAMBDA a : a.member_id = member.id /\ a.transaction_id \in sellTransactionIds))
    IN  [member_id |-> member.id,
         total_contributions |-> totalContributions,
         total_buys |-> totalBuys,
         total_sells |-> totalSells,
         available_cash |-> AvailableCash(totalContributions, totalBuys, totalSells)]

calculateMemberCash(d) ==
    Reduce(LAMBDA cashMap, member : MapSet(cashMap, member.id, MemberCashPool(d, member)),
           <<>>, d.members)

(***************************************************************************)
(* calculateMemberShares.  sharesMap.get(allocation.member_id)! is         *)
(* undefined for an id that is not a member's, and the following           *)
(* memberShares.get throws a TypeError: the call returns no value.         *)
(***************************************************************************)
Ok(v) == [status |-> "ok", value |-> v]

TypeError == [status |-> "TypeError", value |-> <<>>]

\* a slip that never lets a share count fall below zero
SharesAfterClamped(type, currentShares, sharesForAllocation) ==
    IF type = "buy" THEN Add(currentShares, sharesForAllocation)
    ELSE IF GtZero(Sub(currentShares, sharesForAllocation))
         THEN Sub(currentShares, sharesForAllocation) ELSE Zero

\* a slip that ignores a sale of more shares than the member holds so far
SharesAfterRefusingOversell(type, currentShares, sharesForAllocation) ==
    IF type = "buy" THEN Add(currentShares, sharesForAllocation)
    ELSE IF GtZero(Sub(sharesForAllocation, currentShares)) THEN currentShares
    ELSE Sub(currentShares, sharesForAllocation)

\* if (transaction.type === 'buy') currentShares + sharesForAllocation, else minus
SharesAfter(type, currentShares, sharesForAllocation) ==
    IF type = "buy" THEN Add(currentShares, sharesForAllocation)
    ELSE Sub(currentShares, sharesForAllocation)

\* a slip that reads the percentage on a scale of 0 to 100
SharesForAllocationOfHundred(quantity, percentage) ==
    Div(Mul(quantity, percentage), Hundred)

\* const sharesForAllocation = transaction.quantity * allocation.percentage
SharesForAllocation(quantity, percentage) == Mul(quantity, percentage)

SharesAllocationStep(acc, transaction, allocation) ==
    IF acc.status # "ok" THEN acc
    ELSE IF ~MapHas(acc.value, allocation.member_id) THEN TypeError
    ELSE LET memberShares == MapGet(acc.value, allocation.member_id)
             currentShares == GetOrZero(memberShares, transaction.stock_id)
             sharesForAllocation ==
                 SharesForAllocation(transaction.quantity, allocation.percentage)
             newShares == SharesAfter(transaction.type, currentShares, sharesForAllocation)
         IN  Ok(MapSet(acc.value, allocation.member_id,
                       MapSet(memberShares, transaction.stock_id, newShares)))

SharesTransactionStep(d, acc, transaction) ==
    LET transactionAllocations ==
            SelectSeq(d.allocations, LAMBDA a : a.transaction_id = transaction.id)
    IN  Reduce(LAMBDA acc2, allocation : SharesAllocationStep(acc2, transaction, allocation),
               acc, transactionAllocations)

calculateMemberShares(d) ==
    LET sharesMap == Reduce(LAMBDA m, member : MapSet(m, member.id, <<>>), <<>>, d.members)
    IN  Reduce(LAMBDA acc, transaction : SharesTransactionStep(d, acc, transaction),
               Ok(sharesMap), d.transactions)

(***************************************************************************)
(* calculateCostBasis                                                      *)
(***************************************************************************)
\* transactions.find((t) => t.id === id): the index of the first match, 0 if none
FindTransaction(d, id) ==
    IF \E i \in DOMAIN d.transactions : d.transactions[i].id = id
    THEN CHOOSE i \in DOMAIN d.transactions :
            /\ d.transactions[i].id = id
            /\ \A j \in 1..(i - 1) : d.transactions[j].id # id
    ELSE 0

\* a slip that never lets a cost basis fall below zero
CostBasisAfterClamped(type, currentCostBasis, amount) ==
    IF type = "buy" THEN Add(currentCostBasis, amount)
    ELSE IF GtZero(Sub(currentCostBasis, amount))
         THEN Sub(currentCostBasis, amount) ELSE Zero

\* if (transaction.type === 'buy') currentCostBasis + amount, else minus
CostBasisAfter(type, currentCostBasis, amount) ==
    IF type = "buy" THEN Add(currentCostBasis, amount)
    ELSE Sub(currentCostBasis, amount)

CostBasisStep(d, costBasisMap, allocation) ==
    LET ti == FindTransaction(d, allocation.transaction_id)
    IN  IF ti = 0 THEN costBasisMap
        ELSE LET transaction == d.transactions[ti]
                 memberCostBasis == IF MapHas(costBasisMap, allocation.member_id)
                                    THEN MapGet(costBasisMap, allocation.member_id)
                                    ELSE <<>>
                 currentCostBasis == GetOrZero(memberCostBasis, transaction.stock_id)
                 newCostBasis == CostBasisAfter(transaction.type, currentCostBasis,
                                                allocation.amount)
             IN  MapSet(costBasisMap, allocation.member_id,
                        MapSet(memberCostBasis, transaction.stock_id, newCostBasis))

calculateCostBasis(d) ==
    Reduce(LAMBDA m, allocation : CostBasisStep(d, m, allocation), <<>>, d.allocations)

(***************************************************************************)
(* calculateOwnershipPercentages                                           *)
(***************************************************************************)
\* let totalShares = 0; memberShares.forEach((stockMap) => totalShares += stockMap.get(id) || 0)
TotalSharesOf(memberShares, stockId) ==
    Reduce(LAMBDA totalShares, e : Add(totalShares, GetOrZero(e.v, stockId)), Zero, memberShares)

OwnershipOfMember(totalSharesPerStock, stockMap) ==
    Reduce(LAMBDA m, e :
              LET totalShares == GetOrZero(totalSharesPerStock, e.k)
                  percentage == IF GtZero(totalShares)
                                THEN Mul(Div(e.v, totalShares), Hundred)
                                ELSE Zero
              IN  MapSet(m, e.k, percentage),
           <<>>, stockMap)

calculateOwnershipPercentages(d) ==
    LET r == calculateMemberShares(d)
    IN  IF r.status # "ok" THEN r
        ELSE LET memberShares == r.value
                 totalSharesPerStock ==
                     Reduce(LAMBDA m, stock : MapSet(m, stock.id, TotalSharesOf(memberShares, stock.id)),
                            <<>>, d.stocks)
             IN  Ok(Reduce(LAMBDA m, e : MapSet(m, e.k, OwnershipOfMember(totalSharesPerStock, e.v)),
                           <<>>, memberShares))

(***************************************************************************)
(* calculatePortfolioSummary                                               *)
(***************************************************************************)
\* a slip that lets a zero denominator through
DenominatorNotNegative(denominator) == denominator.n >= 0

\* the guard of every percentage: denominator > 0
DenominatorPositive(denominator) == GtZero(denominator)

\* a slip that reports the fraction instead of the percentage
FractionOf(numerator, denominator) ==
    IF DenominatorPositive(denominator) THEN Div(numerator, denominator) ELSE Zero

\* a slip that divides without looking at the denominator
PercentageUnguarded(numerator, denominator) ==
    Mul(Div(numerator, denominator), Hundred)

\* denominator > 0 ? (numerator / denominator) * 100 : 0
PercentageOf(numerator, denominator) ==
    IF DenominatorPositive(denominator)
    THEN Mul(Div(numerator, denominator), Hundred) ELSE Zero

\* a slip that subtracts the wrong way round
GainLossReversed(currentStockValue, memberTotalCostBasis) ==
    Sub(memberTotalCostBasis, currentStockValue)

\* const gainLoss = currentStockValue - memberTotalCostBasis
GainLoss(currentStockValue, memberTotalCostBasis) ==
    Sub(currentStockValue, memberTotalCostBasis)

\* a slip that gives a member in deficit no share instead of a negative one
OwnershipPercentageClamped(memberTotalValue, totalValue) ==
    PercentageOf(IF GtZero(memberTotalValue) THEN memberTotalValue ELSE Zero, totalValue)

\* member.ownershipPercentage = totalValue > 0 ? (member.totalValue / totalValue) * 100 : 0
OwnershipPercentage(memberTotalValue, totalValue) ==
    PercentageOf(memberTotalValue, totalValue)

\* the body of members.map(...): one MemberPortfolioSummary, ownershipPercentage still 0
MemberSummary(d, memberCash, memberShares, costBasis, member) ==
    LET cash == MapGet(memberCash, member.id)
        shares == MapGet(memberShares, member.id)
        memberCostBasisMap == IF MapHas(costBasis, member.id)
                              THEN MapGet(costBasis, member.id) ELSE <<>>
        currentStockValue ==
            Reduce(LAMBDA v, stock :
                      Add(v, Mul(GetOrZero(shares, stock.id), PriceOrZero(stock.current_price))),
                   Zero, d.stocks)
        memberTotalCostBasis ==
            Reduce(LAMBDA c, stock : Add(c, GetOrZero(memberCostBasisMap, stock.id)),
                   Zero, d.stocks)
        totalValue == Add(currentStockValue, cash.available_cash)
        gainLoss == GainLoss(currentStockValue, memberTotalCostBasis)
    IN  [memberId |-> member.id,
         totalContributions |-> cash.total_contributions,
         currentStockValue |-> currentStockValue,
         availableCash |-> cash.available_cash,
         totalValue |-> totalValue,
         costBasis |-> memberTotalCostBasis,
         gainLoss |-> gainLoss,
         gainLossPercentage |-> PercentageOf(gainLoss, memberTotalCostBasis),
         ownershipPercentage |-> Zero]

\* a slip that leaves the cash inside the gain
PortfolioTotalGainLossWithCash(totalValue, totalCash, totalCostBasis) ==
    Sub(totalValue, totalCostBasis)

\* a slip that adds the cash instead of taking it off
PortfolioTotalGainLossPlusCash(totalValue, totalCash, totalCostBasis) ==
    Sub(Add(totalValue, totalCash), totalCostBasis)

\* const totalGainLoss = totalValue - totalCash - totalCostBasis
PortfolioTotalGainLoss(totalValue, totalCash, totalCostBasis) ==
    Sub(Sub(totalValue, totalCash), totalCostBasis)

calculatePortfolioSummary(d) ==
    LET memberCash == calculateMemberCash(d)
        r == calculateMemberShares(d)
        costBasis == calculateCostBasis(d)
    IN  IF r.status # "ok" THEN r
        ELSE LET breakdown0 ==
                     [i \in DOMAIN d.members |->
                         MemberSummary(d, memberCash, r.value, costBasis, d.members[i])]
                 totalCash ==
                     Reduce(LAMBDA sum, m : Add(sum, m.availableCash), Zero, breakdown0)
                 totalValue ==
                     Reduce(LAMBDA sum, m : Add(sum, m.totalValue), Zero, breakdown0)
                 totalCostBasis ==
                     Reduce(LAMBDA sum, m : Add(sum, m.costBasis), Zero, breakdown0)
                 memberBreakdown ==
                     [i \in DOMAIN breakdown0 |->
                         [breakdown0[i] EXCEPT
                             !.ownershipPercentage =
                                 OwnershipPercentage(breakdown0[i].totalValue, totalValue)]]
                 totalGainLoss == PortfolioTotalGainLoss(totalValue, totalCash, totalCostBasis)
             IN  Ok([totalValue |-> totalValue,
                     totalCostBasis |-> totalCostBasis,
                     totalGainLoss |-> totalGainLoss,
                     totalGainLossPercentage |-> PercentageOf(totalGainLoss, totalCostBasis),
                     totalCash |-> totalCash,
                     memberBreakdown |-> memberBreakdown])

(***************************************************************************)
(* calculateStockWithOwnership                                             *)
(***************************************************************************)
\* a slip that lists every member whose share count is not zero
IsListedWhenNonzero(shares) == shares.n # 0

\* if (shares > 0): the member is listed
IsListed(shares) == GtZero(shares)

\* the members.forEach loop: acc is [totalShares, totalCostBasis, memberOwnership]
OwnershipStep(stock, memberShares, costBasis, acc, member) ==
    LET shares == GetGetOrZero(memberShares, member.id, stock.id)
        memberCostBasis == GetGetOrZero(costBasis, member.id, stock.id)
        value == Mul(shares, PriceOrZero(stock.current_price))
    IN  IF IsListed(shares)
        THEN [totalShares |-> Add(acc.totalShares, shares),
              totalCostBasis |-> Add(acc.totalCostBasis, memberCostBasis),
              memberOwnership |-> Append(acc.memberOwnership,
                  [memberId |-> member.id, shares |-> shares, value |-> value,
                   percentage |-> Zero])]
        ELSE acc

calculateStockWithOwnership(stock, d) ==
    LET r == calculateMemberShares(d)
        costBasis == calculateCostBasis(d)
    IN  IF r.status # "ok" THEN r
        ELSE LET acc == Reduce(LAMBDA a, member : OwnershipStep(stock, r.value, costBasis, a, member),
                               [totalShares |-> Zero, totalCostBasis |-> Zero,
                                memberOwnership |-> <<>>],
                               d.members)
                 totalShares == acc.totalShares
                 totalCostBasis == acc.totalCostBasis
                 memberOwnership ==
                     [i \in DOMAIN acc.memberOwnership |->
                         [acc.memberOwnership[i] EXCEPT
                             !.percentage = PercentageOf(acc.memberOwnership[i].shares, totalShares)]]
                 currentValue == Mul(totalShares, PriceOrZero(stock.current_price))
                 gainLoss == Sub(currentValue, totalCostBasis)
             IN  Ok([id |-> stock.id,
                     current_price |-> stock.current_price,
                     sharesOwned |-> totalShares,
                     currentValue |-> currentValue,
                     costBasis |-> totalCostBasis,
                     gainLoss |-> gainLoss,
                     gainLossPercentage |-> PercentageOf(gainLoss, totalCostBasis),
                     memberOwnership |-> memberOwnership])

(***************************************************************************)
(* calculateSellAllocations                                                *)
(***************************************************************************)
\* if (totalShares === 0) return allocations
NothingToSell(totalShares) == EqZero(totalShares)

\* a slip that also pays members whose share count is negative
GetsProceedsWhenNonzero(shares) == shares.n # 0

\* if (shares > 0): the member gets a share of the proceeds
GetsProceeds(shares) == GtZero(shares)

SellStep(stockId, totalShares, totalAmount, out, e) ==
    LET shares == GetOrZero(e.v, stockId)
    IN  IF GetsProceeds(shares)
        THEN LET percentage == Div(shares, totalShares)
             IN  Append(out, [member_id |-> e.k,
                              amount |-> Mul(totalAmount, percentage),
                              percentage |-> percentage])
        ELSE out

calculateSellAllocations(stockId, quantity, pricePerShare, d) ==
    LET r == calculateMemberShares(d)
    IN  IF r.status # "ok" THEN r
        ELSE LET memberShares == r.value
                 totalShares == TotalSharesOf(memberShares, stockId)
                 totalAmount == Mul(quantity, pricePerShare)
             IN  IF NothingToSell(totalShares) THEN Ok(<<>>)
                 ELSE Ok(Reduce(LAMBDA out, e : SellStep(stockId, totalShares, totalAmount, out, e),
                                <<>>, memberShares))

(***************************************************************************)
(* The snapshots Init draws from.  Ids are primary keys, so no list holds  *)
(* an id twice; amounts, quantities and prices are positive and            *)
(* percentages lie in (0, 1] (the CHECK constraints of the schema).  An    *)
(* allocation may name a member, and a transaction a stock, that the       *)
(* snapshot's lists do not hold, and an allocation may name a transaction  *)
(* that is not in `transactions` (the stock detail page passes only the    *)
(* transactions of one stock with the allocations of all).                 *)
(*                                                                         *)
(* The product of all lists is too large to enumerate, so Init is the      *)
(* union of three families of snapshots:                                   *)
(*   InitTrades    up to MaxTx transactions and MaxAllocs allocations      *)
(*                 among all members, no contributions, every stock priced *)
(*   InitFunds     up to MaxContribs contributions, any prefix of the      *)
(*                 members, at most one transaction and one allocation     *)
(*   InitHoldings  any stock list with known and unknown prices, any       *)
(*                 prefix of the members, at most one transaction and one  *)
(*                 allocation whose amount and percentage are independent  *)
(* and one fixed snapshot:                                                 *)
(*   InitScenario  two members who contributed 1000 each and bought 10     *)
(*                 shares of one stock at 100, split 600 / 400; the stock  *)
(*                 now trades at 120                                       *)
(***************************************************************************)
MaxPrice == 2

SeqsUpTo(S, n) == UNION {[1..k -> S] : k \in 0..n}

Amounts == {Num(k) : k \in 1..MaxAmount}

Quantities == {Num(k) : k \in 1..MaxQty}

Percentages == {Norm(k, PctSteps) : k \in 1..PctSteps}

SellPrices == {Num(k) : k \in 1..MaxPrice}

CurrentPrices == {Null} \cup SellPrices

AllMembers == [i \in 1..MaxMembers |-> [id |-> AllMemberIds[i]]]

MemberLists == {SubSeq(AllMembers, 1, n) : n \in 0..MaxMembers}

PricedStocks == [i \in 1..MaxStocks |-> [id |-> AllStockIds[i], current_price |-> Num(i + 1)]]

StockLists ==
    UNION {{[i \in 1..n |-> [id |-> AllStockIds[i], current_price |-> p[i]]] :
                p \in [1..n -> CurrentPrices]} : n \in 0..MaxStocks}

ContributionLists ==
    SeqsUpTo([member_id : MemberIds, amount : Amounts], MaxContribs)

TransactionListsUpTo(n) ==
    UNION {{[i \in 1..k |-> [id |-> AllTxIds[i], stock_id |-> t[i].stock_id,
                             type |-> t[i].type, quantity |-> t[i].quantity,
                             price_per_share |-> Div(Num(MaxAmount), t[i].quantity)]] :
                t \in [1..k -> [stock_id : StockIds, type : {"buy", "sell"},
                                quantity : Quantities]]} : k \in 0..n}

\* an allocation of k out of a transaction total of MaxAmount: percentage = amount / total
ProportionalAllocations ==
    {[transaction_id |-> t, member_id |-> m, amount |-> Num(k),
      percentage |-> Norm(k, MaxAmount)] : t \in TxIds, m \in MemberIds, k \in 1..MaxAmount}

\* an allocation whose percentage need not match its amount
FreeAllocations ==
    [transaction_id : TxIds, member_id : MemberIds, amount : Amounts, percentage : Percentages]

NoCall == [fn |-> "none", stock |-> <<>>, stockId |-> "", quantity |-> Zero,
           pricePerShare |-> Zero]

NoResult == [status |-> "none", value |-> <<>>]

\* the value "" of an input element that holds no number
Empty == [n |-> 0, d |-> -2]

\* the new-transaction page is not open: nothing of its state exists
NoForm == [page |-> "list", transactionType |-> "buy", selectedStock |-> "",
           quantity |-> Empty, pricePerShare |-> Empty, allocations |-> <<>>,
           cashPools |-> <<>>, transactions |-> <<>>, allocationsData |-> <<>>,
           submitting |-> FALSE, pc |-> "idle", transaction |-> "", toast |-> ""]

InitTrades ==
    /\ members = AllMembers
    /\ contributions = <<>>
    /\ stocks = PricedStocks
    /\ transactions \in TransactionListsUpTo(MaxTx)
    /\ allocations \in SeqsUpTo(ProportionalAllocations, MaxAllocs)

InitFunds ==
    /\ members \in MemberLists
    /\ contributions \in ContributionLists
    /\ stocks = PricedStocks
    /\ transactions \in TransactionListsUpTo(1)
    /\ allocations \in SeqsUpTo(ProportionalAllocations, 1)

InitHoldings ==
    /\ members \in MemberLists
    /\ contributions = <<>>
    /\ stocks \in StockLists
    /\ transactions \in TransactionListsUpTo(1)
    /\ allocations \in SeqsUpTo(FreeAllocations, 1)

ScenarioSnapshot ==
    [members |-> <<[id |-> "m1"], [id |-> "m2"]>>,
     contributions |-> <<[member_id |-> "m1", amount |-> Num(1000)],
                         [member_id |-> "m2", amount |-> Num(1000)]>>,
     stocks |-> <<[id |-> "s1", current_price |-> Num(120)]>>,
     transactions |-> <<[id |-> "t1", stock_id |-> "s1", type |-> "buy",
                         quantity |-> Num(10), price_per_share |-> Num(100)]>>,
     allocations |-> <<[transaction_id |-> "t1", member_id |-> "m1",
                        amount |-> Num(600), percentage |-> Norm(600, 1000)],
                       [transaction_id |-> "t1", member_id |-> "m2",
                        amount |-> Num(400), percentage |-> Norm(400, 1000)]>>]

InitScenario ==
    /\ members = ScenarioSnapshot.members
    /\ contributions = ScenarioSnapshot.contributions
    /\ stocks = ScenarioSnapshot.stocks
    /\ transactions = ScenarioSnapshot.transactions
    /\ allocations = ScenarioSnapshot.allocations

Init ==
    /\ InitTrades \/ InitFunds \/ InitHoldings \/ InitScenario
    /\ call = NoCall
    /\ result = NoResult
    /\ form = NoForm

Snapshot == <<members, contributions, stocks, transactions, allocations>>

(***************************************************************************)
(* One action per exported function: a caller that holds the snapshot      *)
(* calls it and keeps what it returned until Return.                       *)
(***************************************************************************)
Idle == call.fn = "none"

Call(fn) == [NoCall EXCEPT !.fn = fn]

CallMemberCash ==
    /\ Idle
    /\ call' = Call("calculateMemberCash")
    /\ result' = Ok(calculateMemberCash(data))
    /\ UNCHANGED <<Snapshot, form>>

CallMemberShares ==
    /\ Idle
    /\ call' = Call("calculateMemberShares")
    /\ result' = calculateMemberShares(data)
    /\ UNCHANGED <<Snapshot, form>>

CallOwnershipPercentages ==
    /\ Idle
    /\ call' = Call("calculateOwnershipPercentages")
    /\ result' = calculateOwnershipPercentages(data)
    /\ UNCHANGED <<Snapshot, form>>

CallCostBasis ==
    /\ Idle
    /\ call' = Call("calculateCostBasis")
    /\ result' = Ok(calculateCostBasis(data))
    /\ UNCHANGED <<Snapshot, form>>

CallPortfolioSummary ==
    /\ Idle
    /\ call' = Call("calculatePortfolioSummary")
    /\ result' = calculatePortfolioSummary(data)
    /\ UNCHANGED <<Snapshot, form>>

\* a slip that normalises the price on the `stock` passed in instead of on a copy
CallStockWithOwnershipInPlace ==
    /\ Idle
    /\ \E i \in DOMAIN stocks :
        /\ call' = [Call("calculateStockWithOwnership") EXCEPT !.stock = stocks[i]]
        /\ result' = calculateStockWithOwnership(stocks[i], data)
        /\ stocks' = [stocks EXCEPT ![i].current_price = PriceOrZero(@)]
    /\ UNCHANGED <<members, contributions, transactions, allocations, form>>

CallStockWithOwnership ==
    /\ Idle
    /\ \E i \in DOMAIN stocks :
        /\ call' = [Call("calculateStockWithOwnership") EXCEPT !.stock = stocks[i]]
        /\ result' = calculateStockWithOwnership(stocks[i], data)
    /\ UNCHANGED <<Snapshot, form>>

CallSellAllocations ==
    /\ Idle
    /\ \E stockId \in StockIds, quantity \in Quantities, pricePerShare \in SellPrices :
        /\ call' = [Call("calculateSellAllocations") EXCEPT
                        !.stockId = stockId, !.quantity = quantity,
                        !.pricePerShare = pricePerShare]
        /\ result' = calculateSellAllocations(stockId, quantity, pricePerShare, data)
    /\ UNCHANGED <<Snapshot, form>>

\* the caller is done with the result; the engine keeps nothing
Return ==
    /\ ~Idle
    /\ call' = NoCall
    /\ result' = NoResult
    /\ UNCHANGED <<Snapshot, form>>

Next ==
    \/ CallMemberCash
    \/ CallMemberShares
    \/ CallOwnershipPercentages
    \/ CallCostBasis
    \/ CallPortfolioSummary
    \/ CallStockWithOwnership
    \/ CallSellAllocations
    \/ Return

Spec == Init /\ [][Next]_vars

(***************************************************************************)
(* The new-transaction form (transactions/new/page.tsx).  Its inputs hold  *)
(* strings: a number the browser accepts (a multiple of the input's step,  *)
(* not below its min) or the empty string.  The handler of a submit event  *)
(* works on the values of the render it was called in, so edits made       *)
(* while it waits for the database cannot reach it: the model lets the     *)
(* user edit between submissions only.  The ledger the form writes to is   *)
(* the database behind the snapshot; the page works on the copies of      *)
(* member_cash_pool, transactions and transaction_allocations that         *)
(* fetchData took when it was opened (members and stocks never change      *)
(* here, so the page's copies of them are the lists themselves).           *)
(***************************************************************************)
MaxCents == 2

MaxSubmits == 1

MaxFormMembers == 3

MaxFormPrice == 3

\* a > b, false when either side is NaN
Gt(a, b) == GtZero(Sub(a, b))

\* Math.abs(a)
MathAbs(a) == [n |-> Abs(a.n), d |-> a.d]

\* parseFloat(str): NaN for the empty string
ParseFloat(str) == IF str = Empty THEN NaN ELSE str

\* parseFloat(str || "0")
ParseFloatOrZero(str) == IF str = Empty THEN Zero ELSE str

\* const totalAmount = parseFloat(quantity || "0") * parseFloat(pricePerShare || "0")
totalAmount(f) == Mul(ParseFloatOrZero(f.quantity), ParseFloatOrZero(f.pricePerShare))

totalAllocated(f) ==
    Reduce(LAMBDA sum, a : Add(sum, ParseFloatOrZero(a.amount)), Zero, f.allocations)

remainingToAllocate(f) == Sub(totalAmount(f), totalAllocated(f))

\* the tolerance 0.01 of handleSubmit
Tolerance == Norm(1, 100)

\* if (Math.abs(remainingToAllocate) > 0.01)
AllocationMismatch(f) == Gt(MathAbs(remainingToAllocate(f)), Tolerance)

\* what the inputs accept: quantity in steps of 0.0001 from 0.0001, price and
\* amounts in steps of 0.01, amounts from 0
FormQuantities == {Norm(k, 2) : k \in 1..MaxQty}

FormPrices == {Norm(k, 100) : k \in 1..MaxFormPrice}

FormAmounts == {Empty} \cup {Norm(k, 100) : k \in 0..MaxCents}

\* the view member_cash_pool: one row per member, the sums calculateMemberCash takes
member_cash_pool == [i \in DOMAIN members |-> MemberCashPool(data, members[i])]

\* the page after fetchData: one empty row for the first member
FreshForm ==
    [NoForm EXCEPT !.page = "form",
                   !.cashPools = member_cash_pool,
                   !.transactions = transactions,
                   !.allocationsData = allocations,
                   !.allocations = IF members # <<>>
                                   THEN <<[memberId |-> members[1].id, amount |-> Empty]>>
                                   ELSE <<>>]

FormMembers == [i \in 1..MaxFormMembers |-> [id |-> AllMemberIds[i]]]

\* a ledger in which every member paid in and all bought one stock together:
\* three shares of s1 at 0.01, one share each; the first member has 0.01 left
HeldPurchase ==
    [id |-> "t1", stock_id |-> "s1", type |-> "buy", quantity |-> Num(MaxFormMembers),
     price_per_share |-> Norm(1, 100)]

HoldingsLedger ==
    [contributions |->
        [i \in 1..MaxFormMembers |->
            [member_id |-> AllMemberIds[i],
             amount |-> IF i = 1 THEN Norm(2, 100) ELSE Norm(1, 100)]],
     transactions |-> <<HeldPurchase>>,
     allocations |->
        [i \in 1..MaxFormMembers |->
            [transaction_id |-> HeldPurchase.id, member_id |-> AllMemberIds[i],
             amount |-> Norm(1, 100), percentage |-> Norm(1, MaxFormMembers)]]]

EmptyLedger == [contributions |-> <<>>, transactions |-> <<>>, allocations |-> <<>>]

InitForm ==
    /\ members = FormMembers
    /\ stocks = PricedStocks
    /\ \E ledger \in {EmptyLedger, HoldingsLedger} :
          /\ contributions = ledger.contributions
          /\ transactions = ledger.transactions
          /\ allocations = ledger.allocations
    /\ call = NoCall
    /\ result = NoResult
    /\ form = NoForm

Ledger == <<transactions, allocations>>

\* the transactions that the form has stored
Submissions == Len(SelectSeq(transactions, LAMBDA t : t # HeldPurchase))

\* the page takes input; the model follows it until MaxSubmits transactions are stored
Editable == form.page = "form" /\ ~form.submitting /\ Submissions < MaxSubmits

\* the admin opens /transactions/new
OpenForm ==
    /\ form.page = "list"
    /\ Submissions < MaxSubmits
    /\ form' = FreshForm
    /\ UNCHANGED <<Snapshot, call, result>>

setTransactionType ==
    /\ Editable
    /\ \E v \in {"buy", "sell"} : form' = [form EXCEPT !.transactionType = v]
    /\ UNCHANGED <<Snapshot, call, result>>

setSelectedStock ==
    /\ Editable
    /\ \E i \in DOMAIN stocks : form' = [form EXCEPT !.selectedStock = stocks[i].id]
    /\ UNCHANGED <<Snapshot, call, result>>

setQuantity ==
    /\ Editable
    /\ \E v \in {Empty} \cup FormQuantities : form' = [form EXCEPT !.quantity = v]
    /\ UNCHANGED <<Snapshot, call, result>>

setPricePerShare ==
    /\ Editable
    /\ \E v \in {Empty} \cup FormPrices : form' = [form EXCEPT !.pricePerShare = v]
    /\ UNCHANGED <<Snapshot, call, result>>

\* a.memberId === id for some row a
HasRowFor(f, id) == \E i \in DOMAIN f.allocations : f.allocations[i].memberId = id

\* a slip that adds a row for the first member whether or not a row names them
addAllocationOfFirstMember ==
    /\ Editable
    /\ Len(form.allocations) < Len(members)
    /\ form' = [form EXCEPT !.allocations =
                    Append(@, [memberId |-> members[1].id, amount |-> Empty])]
    /\ UNCHANGED <<Snapshot, call, result>>

\* the "Add Member" button is rendered while allocations.length < members.length
addAllocation ==
    /\ Editable
    /\ Len(form.allocations) < Len(members)
    /\ LET availableMembers == SelectSeq(members, LAMBDA m : ~HasRowFor(form, m.id))
       IN  form' = IF availableMembers # <<>>
                   THEN [form EXCEPT !.allocations =
                            Append(@, [memberId |-> availableMembers[1].id, amount |-> Empty])]
                   ELSE form
    /\ UNCHANGED <<Snapshot, call, result>>

\* allocations.filter((_, i) => i !== index)
WithoutRow(rows, index) ==
    [i \in 1..(Len(rows) - 1) |-> IF i < index THEN rows[i] ELSE rows[i + 1]]

\* the remove button is disabled while there is one row
removeAllocation ==
    /\ Editable
    /\ Len(form.allocations) # 1
    /\ \E index \in DOMAIN form.allocations :
          form' = [form EXCEPT !.allocations = WithoutRow(@, index)]
    /\ UNCHANGED <<Snapshot, call, result>>

\* the selector of a row disables the members that another row names
updateAllocation ==
    /\ Editable
    /\ \E index \in DOMAIN form.allocations :
          \/ \E k \in DOMAIN members :
                /\ \/ form.allocations[index].memberId = members[k].id
                   \/ ~HasRowFor(form, members[k].id)
                /\ form' = [form EXCEPT !.allocations[index].memberId = members[k].id]
          \/ \E value \in FormAmounts :
                form' = [form EXCEPT !.allocations[index].amount = value]
    /\ UNCHANGED <<Snapshot, call, result>>

\* Number.prototype.toFixed(2), read back by parseFloat: the nearest multiple
\* of 0.01, the larger one of two
toFixed2(x) ==
    IF ~IsFinite(x) THEN x ELSE Norm((2 * x.n * 100 + x.d) \div (2 * x.d), 100)

\* the button "Auto-allocate by Ownership" is rendered for a sell; an
\* exception thrown by the engine leaves the state as it is
autoAllocateSell ==
    /\ Editable
    /\ form.transactionType = "sell"
    /\ LET sellAllocations ==
               calculateSellAllocations(form.selectedStock, ParseFloat(form.quantity),
                   ParseFloat(form.pricePerShare),
                   [members |-> members, contributions |-> <<>>, stocks |-> stocks,
                    transactions |-> form.transactions,
                    allocations |-> form.allocationsData])
       IN  form' = IF form.selectedStock = "" \/ form.quantity = Empty
                      \/ form.pricePerShare = Empty
                   THEN form
                   ELSE IF sellAllocations.status # "ok" THEN form
                   ELSE [form EXCEPT !.allocations =
                            [i \in DOMAIN sellAllocations.value |->
                                [memberId |-> sellAllocations.value[i].member_id,
                                 amount |-> toFixed2(sellAllocations.value[i].amount)]]]
    /\ UNCHANGED <<Snapshot, call, result>>

\* const pool = cashPools.find(...); return pool?.available_cash || 0
getCashAvailable(f, memberId) ==
    IF \E i \in DOMAIN f.cashPools : f.cashPools[i].member_id = memberId
    THEN OrZero(f.cashPools[CHOOSE i \in DOMAIN f.cashPools :
                               f.cashPools[i].member_id = memberId].available_cash)
    ELSE Zero

\* the row is drawn with a red border and "Exceeds available"
isOverBudget(f, index) ==
    /\ f.transactionType = "buy"
    /\ Gt(ParseFloatOrZero(f.allocations[index].amount),
          getCashAvailable(f, f.allocations[index].memberId))

(***************************************************************************)
(* What the database does with an insert.  A value is rounded to the       *)
(* scale of its DECIMAL column before the CHECK constraints are tested;    *)
(* one insert statement stores all of its rows or none.  An insert can     *)
(* also fail for a reason outside the program (network, row-level          *)
(* security): `failure` below.                                             *)
(***************************************************************************)
\* DECIMAL(p, s): x rounded half away from zero to a multiple of 1 / unitsPerOne
ToDecimal(x, unitsPerOne) ==
    IF ~IsFinite(x) THEN x
    ELSE Norm(Sgn(x.n) * ((2 * Abs(x.n) * unitsPerOne + x.d) \div (2 * x.d)), unitsPerOne)

\* the row of `transactions` that handleSubmit sends, as the table stores it
TransactionRow(f, id) ==
    [id |-> id,
     stock_id |-> f.selectedStock,
     type |-> f.transactionType,
     quantity |-> ToDecimal(ParseFloat(f.quantity), 1000000),
     price_per_share |-> ToDecimal(ParseFloat(f.pricePerShare), 10000)]

\* NOT NULL, CHECK (quantity > 0), CHECK (price_per_share > 0), REFERENCES stocks(id)
TransactionRowAccepted(row) ==
    /\ IsFinite(row.quantity) /\ GtZero(row.quantity)
    /\ IsFinite(row.price_per_share) /\ GtZero(row.price_per_share)
    /\ \E k \in DOMAIN stocks : stocks[k].id = row.stock_id

\* allocations.filter((a) => parseFloat(a.amount) > 0).map(...)
allocationInserts(f, transactionId) ==
    LET kept == SelectSeq(f.allocations, LAMBDA a : GtZero(ParseFloat(a.amount)))
    IN  [i \in DOMAIN kept |->
            [transaction_id |-> transactionId,
             member_id |-> kept[i].memberId,
             amount |-> ParseFloat(kept[i].amount),
             percentage |-> Div(ParseFloat(kept[i].amount), totalAmount(f))]]

\* the rows as the table stores them
AllocationRows(rows) ==
    [i \in DOMAIN rows |->
        [rows[i] EXCEPT !.amount = ToDecimal(@, 100), !.percentage = ToDecimal(@, 10000)]]

\* NOT NULL, CHECK (amount > 0), the two REFERENCES and UNIQUE(transaction_id, member_id)
AllocationRowsWellFormed(rows) ==
    /\ \A i \in DOMAIN rows :
          /\ IsFinite(rows[i].amount) /\ GtZero(rows[i].amount)
          /\ IsFinite(rows[i].percentage)
          /\ \E k \in DOMAIN members : members[k].id = rows[i].member_id
          /\ \E k \in DOMAIN transactions : transactions[k].id = rows[i].transaction_id
    /\ \A i, j \in DOMAIN rows : rows[i].member_id = rows[j].member_id => i = j
    /\ \A i \in DOMAIN rows : \A j \in DOMAIN allocations :
          ~ /\ allocations[j].transaction_id = rows[i].transaction_id
            /\ allocations[j].member_id = rows[i].member_id

\* the insert is accepted: the rows are well formed and
\* CHECK (percentage > 0 AND percentage <= 1) holds
AllocationRowsAccepted(rows) ==
    /\ AllocationRowsWellFormed(rows)
    /\ \A i \in DOMAIN rows :
          /\ GtZero(rows[i].percentage)
          /\ ~Gt(rows[i].percentage, Num(1))

(***************************************************************************)
(* handleSubmit.  The browser raises the submit event only when the        *)
(* required inputs hold a number and nobody is submitting.  The handler    *)
(* runs to its first await (handleSubmit), resumes when the insert of the  *)
(* transaction has answered (handleSubmitTransaction) and again when the   *)
(* insert of the allocations has answered (handleSubmitAllocations).       *)
(***************************************************************************)
Submittable ==
    /\ Editable
    /\ form.quantity # Empty
    /\ form.pricePerShare # Empty

handleSubmit ==
    /\ Submittable
    /\ Submissions < MaxSubmits
    /\ form' = IF form.selectedStock = ""
               THEN [form EXCEPT !.toast = "Please select a stock"]
               ELSE IF AllocationMismatch(form)
               THEN [form EXCEPT !.toast = "Allocation mismatch"]
               ELSE [form EXCEPT !.submitting = TRUE, !.pc = "transaction", !.toast = ""]
    /\ UNCHANGED <<Snapshot, call, result>>

\* the toast and the `finally` of a failed submission
SubmissionFailed == [form EXCEPT !.toast = "Error", !.submitting = FALSE, !.pc = "idle",
                                 !.transaction = ""]

handleSubmitTransaction ==
    /\ form.pc = "transaction"
    /\ \E failure \in BOOLEAN :
          LET row == TransactionRow(form, AllTxIds[Len(transactions) + 1])
          IN  IF ~failure /\ TransactionRowAccepted(row)
              THEN /\ transactions' = Append(transactions, row)
                   /\ form' = [form EXCEPT !.pc = "allocations", !.transaction = row.id]
              ELSE /\ transactions' = transactions
                   /\ form' = SubmissionFailed
    /\ UNCHANGED <<members, contributions, stocks, allocations, call, result>>

\* on success router.push("/transactions") leaves the page
handleSubmitAllocations ==
    /\ form.pc = "allocations"
    /\ \E failure \in BOOLEAN :
          LET rows == AllocationRows(allocationInserts(form, form.transaction))
          IN  IF ~failure /\ AllocationRowsAccepted(rows)
              THEN /\ allocations' = allocations \o rows
                   /\ form' = [NoForm EXCEPT !.toast = "Transaction created successfully"]
              ELSE /\ allocations' = allocations
                   /\ form' = SubmissionFailed
    /\ UNCHANGED <<members, contributions, stocks, transactions, call, result>>

NextForm ==
    \/ OpenForm
    \/ setTransactionType
    \/ setSelectedStock
    \/ setQuantity
    \/ setPricePerShare
    \/ addAllocation
    \/ removeAllocation
    \/ updateAllocation
    \/ autoAllocateSell
    \/ handleSubmit
    \/ handleSubmitTransaction
    \/ handleSubmitAllocations

SpecForm == InitForm /\ [][NextForm]_vars


(***************************************************************************)
(* The single-stock price refresh, POST /api/stocks/[symbol]/refresh        *)
(* (route.ts).  `call` holds the request being served and how far the      *)
(* handler has come, `result` the response.  The rows of `stocks` carry    *)
(* their symbol and last_updated here.  The handler's database client      *)
(* acts as the user of the request, so the row-level security policies of  *)
(* the schema apply to its select and its update.  Time is a counter: a    *)
(* request is served later than every update made before it.               *)
(***************************************************************************)
MaxQuote == 2

MaxRefreshes == 2

Symbols == <<"AAPL", "MSFT", "TSLA", "NVDA">>

\* the [symbol] segment of the URL: a stored symbol in either case, or another one
RawSymbols == {Symbols[i] : i \in 1..MaxStocks} \cup {"aapl", "ZZZ"}

\* rawSymbol.toUpperCase()
toUpperCase(rawSymbol) == IF rawSymbol = "aapl" THEN "AAPL" ELSE rawSymbol

\* who sends the request: nobody signed in, a user without a row in
\* family_members, a family member, an admin
Users == {"none", "visitor", "member", "admin"}

\* is_family_member() and is_admin() for the user of the request
is_family_member(user) == user \in {"member", "admin"}

is_admin(user) == user = "admin"

\* getStockQuote: null, or a quote with a price
NoQuote == [price |-> Null]

Quotes == {NoQuote} \cup {[price |-> Norm(k, 32)] : k \in 1..MaxQuote}

\* the stocks table: no price fetched yet
StockRows ==
    [i \in 1..MaxStocks |->
        [id |-> AllStockIds[i], symbol |-> Symbols[i], current_price |-> Null,
         last_updated |-> 0]]

InitRefresh ==
    /\ members = AllMembers
    /\ contributions = <<>>
    /\ stocks = StockRows
    /\ transactions = <<>>
    /\ allocations = <<>>
    /\ call = NoCall
    /\ result = NoResult
    /\ form = NoForm

\* NextResponse.json(body, { status }), the status code written as a string
Response(status, body) == [status |-> status, value |-> body]

RECURSIVE MaxOf(_)
MaxOf(S) ==
    IF S = {} THEN 0
    ELSE LET x == CHOOSE y \in S : TRUE
             rest == MaxOf(S \ {x})
         IN  IF x > rest THEN x ELSE rest

\* new Date(): later than every last_updated stored so far
Now == 1 + MaxOf({stocks[i].last_updated : i \in DOMAIN stocks})

\* the request arrives; the handler runs up to the answer of auth.getUser()
POST ==
    /\ Idle
    /\ Now <= MaxRefreshes
    /\ \E rawSymbol \in RawSymbols, user \in Users :
          LET request == [fn |-> "POST /api/stocks/[symbol]/refresh",
                          user |-> user, symbol |-> toUpperCase(rawSymbol),
                          stock |-> "", quote |-> NoQuote, pc |-> "select"]
          IN  IF user = "none"
              THEN /\ call' = [request EXCEPT !.pc = "done"]
                   /\ result' = Response("401", "Unauthorized")
              ELSE /\ call' = request
                   /\ result' = NoResult
    /\ UNCHANGED <<Snapshot, form>>

\* .from("stocks").select("id").eq("symbol", symbol).single(), under the
\* policy "Family members can view all stocks"
POSTSelect ==
    /\ call.fn = "POST /api/stocks/[symbol]/refresh" /\ call.pc = "select"
    /\ \E failure \in BOOLEAN :
          LET found == {i \in DOMAIN stocks :
                           stocks[i].symbol = call.symbol /\ is_family_member(call.user)}
          IN  IF failure \/ found = {}
              THEN /\ call' = [call EXCEPT !.pc = "done"]
                   /\ result' = Response("404", "Stock not found")
              ELSE /\ call' = [call EXCEPT !.pc = "quote",
                                           !.stock = stocks[CHOOSE i \in found : TRUE].id]
                   /\ result' = NoResult
    /\ UNCHANGED <<Snapshot, form>>

\* const quote = await getStockQuote(symbol)
POSTQuote ==
    /\ call.fn = "POST /api/stocks/[symbol]/refresh" /\ call.pc = "quote"
    /\ \E quote \in Quotes :
          IF quote = NoQuote
          THEN /\ call' = [call EXCEPT !.pc = "done"]
               /\ result' = Response("500", "Failed to fetch stock price")
          ELSE /\ call' = [call EXCEPT !.pc = "update", !.quote = quote]
               /\ result' = NoResult
    /\ UNCHANGED <<Snapshot, form>>

\* .update({ current_price, last_updated }).eq("id", stock.id), under the
\* policy "Admins can update stocks": a row the policy hides is not updated
\* and no error is raised; current_price is DECIMAL(15, 4)
UpdatedRows(rows, c, now) ==
    [i \in DOMAIN rows |->
        IF rows[i].id = c.stock /\ is_admin(c.user)
        THEN [rows[i] EXCEPT !.current_price = ToDecimal(c.quote.price, 10000),
                             !.last_updated = now]
        ELSE rows[i]]

POSTUpdate ==
    /\ call.fn = "POST /api/stocks/[symbol]/refresh" /\ call.pc = "update"
    /\ \E failure \in BOOLEAN :
          IF failure
          THEN /\ stocks' = stocks
               /\ result' = Response("500", "updateError")
          ELSE /\ stocks' = UpdatedRows(stocks, call, Now)
               /\ result' = Response("200", [symbol |-> call.symbol, price |-> call.quote.price,
                                            updated |-> TRUE])
    /\ call' = [call EXCEPT !.pc = "done"]
    /\ UNCHANGED <<members, contributions, transactions, allocations, form>>

\* the response has been sent
POSTDone ==
    /\ call.fn = "POST /api/stocks/[symbol]/refresh" /\ call.pc = "done"
    /\ call' = NoCall
    /\ result' = NoResult
    /\ UNCHANGED <<Snapshot, form>>

NextRefresh ==
    \/ POST
    \/ POSTSelect
    \/ POSTQuote
    \/ POSTUpdate
    \/ POSTDone

SpecRefresh == InitRefresh /\ [][NextRefresh]_vars

(***************************************************************************)
(* Vocabulary of the properties: plain sums over the ledger, written        *)
(* without the engine's loops.                                             *)
(***************************************************************************)
RECURSIVE SumOver(_, _)
SumOver(S, f) ==
    IF S = {} THEN Zero
    ELSE LET x == CHOOSE y \in S : TRUE IN Add(f[x], SumOver(S \ {x}, f))

IdsOfMembers == {members[i].id : i \in DOMAIN members}

Called(fn) == call.fn = fn

Returned(fn) == call.fn = fn /\ result.status = "ok"

AllocationMembersResolve ==
    \A j \in DOMAIN allocations : allocations[j].member_id \in IdsOfMembers

\* the allocations of member m on transactions of the given type (and stock, if any)
AllocationsOn(m, type, stockIds) ==
    {j \in DOMAIN allocations :
        /\ allocations[j].member_id = m
        /\ \E i \in DOMAIN transactions :
              /\ transactions[i].id = allocations[j].transaction_id
              /\ transactions[i].type = type
              /\ transactions[i].stock_id \in stockIds}

TransactionOf(j) ==
    transactions[CHOOSE i \in DOMAIN transactions :
                    transactions[i].id = allocations[j].transaction_id]

AmountSum(J) == SumOver(J, [j \in J |-> allocations[j].amount])

ShareSum(J) ==
    SumOver(J, [j \in J |-> Mul(TransactionOf(j).quantity, allocations[j].percentage)])

NetShares(m, s) ==
    Sub(ShareSum(AllocationsOn(m, "buy", {s})), ShareSum(AllocationsOn(m, "sell", {s})))

NetAmount(m, s) ==
    Sub(AmountSum(AllocationsOn(m, "buy", {s})), AmountSum(AllocationsOn(m, "sell", {s})))

ContributionSum(m) ==
    LET C == {i \in DOMAIN contributions : contributions[i].member_id = m}
    IN  SumOver(C, [i \in C |-> contributions[i].amount])

AnyStock == {transactions[i].stock_id : i \in DOMAIN transactions}

\* C1: when every allocation names a member of `members`, calculateMemberShares
\* returns a map of exactly the members in which the shares of member m in
\* security s are the bought quantity * percentage minus the sold one, negative
\* values included (a pair without an entry has no allocation: the sum is 0).
SharesAreNetOfBuysAndSells ==
    (Called("calculateMemberShares") /\ AllocationMembersResolve) =>
        /\ result.status = "ok"
        /\ MapKeys(result.value) = IdsOfMembers
        /\ \A m \in IdsOfMembers : \A s \in StockIds :
              LET stockMap == MapGet(result.value, m)
              IN  IF MapHas(stockMap, s)
                  THEN MapGet(stockMap, s) = NetShares(m, s)
                  ELSE NetShares(m, s) = Zero

\* a member ends with a negative share count that the call reports
NegativeSharesReported ==
    /\ Returned("calculateMemberShares")
    /\ AllocationMembersResolve
    /\ \E m \in IdsOfMembers : \E s \in StockIds :
          /\ MapHas(MapGet(result.value, m), s)
          /\ MapGet(MapGet(result.value, m), s).n < 0
          /\ AllocationsOn(m, "buy", {s}) # {}

\* C2: calculateMemberCash returns one entry per member, in order, holding the
\* sums of the member's contributions, buy allocations and sell allocations and
\* available_cash = contributions - buys + sells; all zero for a member with
\* no contribution and no allocation.
CashIsContributionsMinusBuysPlusSells ==
    Called("calculateMemberCash") =>
        /\ result.status = "ok"
        /\ [i \in DOMAIN result.value |-> result.value[i].k] =
               [i \in DOMAIN members |-> members[i].id]
        /\ \A m \in IdsOfMembers :
              LET e == MapGet(result.value, m)
                  c == ContributionSum(m)
                  b == AmountSum(AllocationsOn(m, "buy", AnyStock))
                  s == AmountSum(AllocationsOn(m, "sell", AnyStock))
              IN  /\ e.member_id = m
                  /\ e.total_contributions = c
                  /\ e.total_buys = b
                  /\ e.total_sells = s
                  /\ e.available_cash = Add(Sub(c, b), s)
                  /\ ( /\ \A i \in DOMAIN contributions : contributions[i].member_id # m
                       /\ \A j \in DOMAIN allocations : allocations[j].member_id # m )
                     => /\ e.total_contributions = Zero
                        /\ e.total_buys = Zero
                        /\ e.total_sells = Zero
                        /\ e.available_cash = Zero

\* one member has contributions and a sale, another has nothing at all
CashOfActiveAndIdleMember ==
    /\ Returned("calculateMemberCash")
    /\ \E m \in IdsOfMembers :
          /\ GtZero(MapGet(result.value, m).total_contributions)
          /\ GtZero(MapGet(result.value, m).total_sells)
    /\ \E m \in IdsOfMembers :
          /\ \A i \in DOMAIN contributions : contributions[i].member_id # m
          /\ \A j \in DOMAIN allocations : allocations[j].member_id # m

\* C3: calculateCostBasis returns, for every (member, security) pair with an
\* allocation, the member's buy amounts on the security minus the sell
\* amounts, unclamped.
CostBasisIsBuysMinusSells ==
    Called("calculateCostBasis") =>
        /\ result.status = "ok"
        /\ \A m \in MemberIds : \A s \in StockIds :
              (AllocationsOn(m, "buy", {s}) \cup AllocationsOn(m, "sell", {s}) # {}) =>
                  /\ MapHas(result.value, m)
                  /\ MapHas(MapGet(result.value, m), s)
                  /\ MapGet(MapGet(result.value, m), s) = NetAmount(m, s)

\* the sells of a pair exceed its buys and the cost basis is negative
NegativeCostBasisReported ==
    /\ Returned("calculateCostBasis")
    /\ \E m \in MemberIds : \E s \in StockIds :
          /\ AllocationsOn(m, "buy", {s}) # {}
          /\ MapHas(result.value, m)
          /\ MapHas(MapGet(result.value, m), s)
          /\ MapGet(MapGet(result.value, m), s).n < 0

\* current price of a listed stock, an unknown price counting as 0
PriceOf(stock) == IF stock.current_price = Null THEN Zero ELSE stock.current_price

NetCash(m) ==
    Add(Sub(ContributionSum(m), AmountSum(AllocationsOn(m, "buy", AnyStock))),
        AmountSum(AllocationsOn(m, "sell", AnyStock)))

StockValueOf(m) ==
    SumOver(DOMAIN stocks, [k \in DOMAIN stocks |-> Mul(NetShares(m, stocks[k].id), PriceOf(stocks[k]))])

CostBasisOf(m) ==
    SumOver(DOMAIN stocks, [k \in DOMAIN stocks |-> NetAmount(m, stocks[k].id)])

Breakdown == result.value.memberBreakdown

SumOfBreakdown(field) ==
    SumOver(DOMAIN Breakdown, [i \in DOMAIN Breakdown |-> Breakdown[i][field]])

\* C4: in the summary, for every member, currentStockValue is the sum over
\* the listed stocks of shares * price, totalValue adds the available cash,
\* costBasis is the sum over the listed stocks of the member's cost basis,
\* gainLoss = currentStockValue - costBasis and gainLossPercentage is
\* gainLoss / costBasis * 100 when costBasis > 0 and 0 otherwise.
MemberFiguresOfSummary ==
    Returned("calculatePortfolioSummary") =>
        /\ DOMAIN Breakdown = DOMAIN members
        /\ \A i \in DOMAIN members :
              LET m == members[i].id
                  b == Breakdown[i]
              IN  /\ b.memberId = m
                  /\ b.currentStockValue = StockValueOf(m)
                  /\ b.availableCash = NetCash(m)
                  /\ b.totalValue = Add(StockValueOf(m), NetCash(m))
                  /\ b.costBasis = CostBasisOf(m)
                  /\ b.gainLoss = Sub(StockValueOf(m), CostBasisOf(m))
                  /\ b.gainLossPercentage =
                        IF CostBasisOf(m).n > 0
                        THEN Mul(Div(b.gainLoss, CostBasisOf(m)), Hundred)
                        ELSE Zero

\* a member holds shares of two stocks at a gain, with cash left over
MemberWithGainOnTwoStocks ==
    /\ Returned("calculatePortfolioSummary")
    /\ \E i \in DOMAIN members :
          /\ Breakdown[i].costBasis.n > 0
          /\ Breakdown[i].gainLossPercentage.n > 0
          /\ Breakdown[i].availableCash.n # 0
          /\ Cardinality({k \in DOMAIN stocks : NetShares(members[i].id, stocks[k].id).n > 0}) = 2

\* C5: when the members' totalValue sum to more than 0, each
\* ownershipPercentage is totalValue / sum * 100 and they sum to 100, also
\* when a member's totalValue is negative.
OwnershipSumsToHundred ==
    (Returned("calculatePortfolioSummary") /\ SumOfBreakdown("totalValue").n > 0) =>
        /\ \A i \in DOMAIN Breakdown :
              Breakdown[i].ownershipPercentage =
                  Mul(Div(Breakdown[i].totalValue, SumOfBreakdown("totalValue")), Hundred)
        /\ SumOfBreakdown("ownershipPercentage") = Hundred

\* the portfolio is worth something while one member's totalValue is negative
OwnershipWithMemberInDeficit ==
    /\ Returned("calculatePortfolioSummary")
    /\ SumOfBreakdown("totalValue").n > 0
    /\ \E i \in DOMAIN Breakdown :
          /\ Breakdown[i].totalValue.n < 0
          /\ Breakdown[i].ownershipPercentage.n < 0

Ownership == result.value.memberOwnership

\* every number in the sequence of records `rows` under `field` is finite
FiniteColumn(rows, field) == \A i \in DOMAIN rows : IsFinite(rows[i][field])

\* C6: every percentage is 0 when its denominator is 0 (ownershipPercentage
\* for a total value of 0, gainLossPercentage and totalGainLossPercentage for
\* a cost basis of 0, the per-security percentage and gainLossPercentage for
\* no shares or no cost basis), every percentage returned is a finite number,
\* and a call on a snapshot whose allocations name members returns.
ZeroDenominatorGivesZero ==
    /\ (AllocationMembersResolve /\ ~Idle) => result.status = "ok"
    /\ Returned("calculatePortfolioSummary") =>
          /\ FiniteColumn(Breakdown, "ownershipPercentage")
          /\ FiniteColumn(Breakdown, "gainLossPercentage")
          /\ IsFinite(result.value.totalGainLossPercentage)
          /\ EqZero(result.value.totalValue) =>
                \A i \in DOMAIN Breakdown : Breakdown[i].ownershipPercentage = Zero
          /\ \A i \in DOMAIN Breakdown :
                EqZero(Breakdown[i].costBasis) => Breakdown[i].gainLossPercentage = Zero
          /\ EqZero(result.value.totalCostBasis) =>
                result.value.totalGainLossPercentage = Zero
    /\ Returned("calculateStockWithOwnership") =>
          /\ FiniteColumn(Ownership, "percentage")
          /\ IsFinite(result.value.gainLossPercentage)
          /\ EqZero(result.value.sharesOwned) =>
                \A i \in DOMAIN Ownership : Ownership[i].percentage = Zero
          /\ EqZero(result.value.costBasis) => result.value.gainLossPercentage = Zero
    /\ Returned("calculateSellAllocations") =>
          /\ FiniteColumn(result.value, "percentage")
          /\ FiniteColumn(result.value, "amount")
    /\ Returned("calculateOwnershipPercentages") =>
          \A i \in DOMAIN result.value : FiniteColumn(result.value[i].v, "v")

\* a member's cost basis is 0 while the gain over it is not, and the portfolio
\* is worth nothing although a member's value is not 0
GainOverZeroCostBasis ==
    /\ Returned("calculatePortfolioSummary")
    /\ \E i \in DOMAIN Breakdown :
          /\ EqZero(Breakdown[i].costBasis)
          /\ Breakdown[i].gainLoss.n # 0
          /\ Breakdown[i].gainLossPercentage = Zero
    /\ EqZero(result.value.totalCostBasis)
    /\ result.value.totalGainLoss.n # 0

\* C7: totalGainLoss = totalValue - totalCash - totalCostBasis, each total
\* being the sum of the members' totalValue, availableCash and costBasis.
TotalGainLossNetOfCashAndBasis ==
    Returned("calculatePortfolioSummary") =>
        /\ result.value.totalValue = SumOfBreakdown("totalValue")
        /\ result.value.totalCash = SumOfBreakdown("availableCash")
        /\ result.value.totalCostBasis = SumOfBreakdown("costBasis")
        /\ result.value.totalGainLoss =
              Sub(Sub(SumOfBreakdown("totalValue"), SumOfBreakdown("availableCash")),
                  SumOfBreakdown("costBasis"))

\* two members with cash and a gain that is not 0
TotalsOfTwoMembersWithCash ==
    /\ Returned("calculatePortfolioSummary")
    /\ Len(Breakdown) = 2
    /\ \A i \in DOMAIN Breakdown : Breakdown[i].availableCash.n # 0
    /\ result.value.totalCash.n # 0
    /\ result.value.totalGainLoss.n # 0

ListedIds == [i \in DOMAIN Ownership |-> Ownership[i].memberId]

\* the ids of the members whose net shares of the stock of the call satisfy P, in order
MemberIdsWhere(P(_)) ==
    LET kept == SelectSeq(members, LAMBDA member : P(NetShares(member.id, call.stock.id)))
    IN  [i \in DOMAIN kept |-> kept[i].id]

\* C8 as stated: calculateStockWithOwnership lists exactly the members whose
\* net share count for the security is not zero.
ListsNonzeroHolders ==
    Returned("calculateStockWithOwnership") =>
        ListedIds = MemberIdsWhere(LAMBDA shares : shares.n # 0)

\* C8 as amended: calculateStockWithOwnership lists, in the order of `members`,
\* exactly the members whose net share count for the security is positive,
\* with that share count; a member with zero or negative shares is omitted,
\* whatever their cost basis.
ListsPositiveHolders ==
    Returned("calculateStockWithOwnership") =>
        /\ ListedIds = MemberIdsWhere(LAMBDA shares : shares.n > 0)
        /\ \A i \in DOMAIN Ownership :
              Ownership[i].shares = NetShares(Ownership[i].memberId, call.stock.id)

\* a member who sold all shares for less than the purchase price is not
\* listed, another member is
ZeroHolderWithCostBasisOmitted ==
    /\ Returned("calculateStockWithOwnership")
    /\ \E i \in DOMAIN members :
          /\ EqZero(NetShares(members[i].id, call.stock.id))
          /\ NetAmount(members[i].id, call.stock.id).n # 0
          /\ \A k \in DOMAIN Ownership : Ownership[k].memberId # members[i].id

\* C9: when at least one member is listed, each listed member's percentage is
\* shares / sharesOwned * 100 and the percentages sum to 100.
ListedPercentagesSumToHundred ==
    (Returned("calculateStockWithOwnership") /\ Ownership # <<>>) =>
        /\ \A i \in DOMAIN Ownership :
              Ownership[i].percentage =
                  Mul(Div(Ownership[i].shares, result.value.sharesOwned), Hundred)
        /\ SumOver(DOMAIN Ownership, [i \in DOMAIN Ownership |-> Ownership[i].percentage])
              = Hundred

\* two members hold different numbers of shares of the stock
TwoHoldersListed ==
    /\ Returned("calculateStockWithOwnership")
    /\ Len(Ownership) = 2
    /\ Ownership[1].percentage # Ownership[2].percentage

TotalNetShares(s) == SumOver(IdsOfMembers, [m \in IdsOfMembers |-> NetShares(m, s)])

\* what C10 expects of a call that returns
ExpectedSellAllocations ==
    LET total == TotalNetShares(call.stockId)
        holders == SelectSeq(members, LAMBDA member : NetShares(member.id, call.stockId).n > 0)
    IN  IF total = Zero THEN <<>>
        ELSE [i \in DOMAIN holders |->
                 LET percentage == Div(NetShares(holders[i].id, call.stockId), total)
                 IN  [member_id |-> holders[i].id,
                      amount |-> Mul(Mul(call.quantity, call.pricePerShare), percentage),
                      percentage |-> percentage]]

\* C10: calculateSellAllocations returns the empty list when the members'
\* shares of the security sum to zero; otherwise, in the order of `members`,
\* one entry for exactly each member with a positive share count, with
\* percentage = shares / total and amount = quantity * pricePerShare *
\* percentage, and nothing for a member with zero or negative shares.
SellAllocationsAreProportional ==
    Returned("calculateSellAllocations") => result.value = ExpectedSellAllocations

\* the total is not zero, the second member holds shares and the first has a
\* negative count: one entry only
SellWithNegativeHolder ==
    /\ Returned("calculateSellAllocations")
    /\ Len(members) = 2
    /\ NetShares(members[1].id, call.stockId).n < 0
    /\ NetShares(members[2].id, call.stockId).n > 0
    /\ TotalNetShares(call.stockId) # Zero
    /\ Len(result.value) = 1

ProposedSum(field) ==
    SumOver(DOMAIN result.value, [i \in DOMAIN result.value |-> result.value[i][field]])

\* C11: whenever the members' shares of the security do not sum to zero, the
\* percentages proposed by calculateSellAllocations sum to 1 and the amounts
\* to quantity * pricePerShare.
SellProposalDistributesProceeds ==
    (Returned("calculateSellAllocations") /\ TotalNetShares(call.stockId) # Zero) =>
        /\ ProposedSum("percentage") = Num(1)
        /\ ProposedSum("amount") = Mul(call.quantity, call.pricePerShare)

\* C12: on the snapshot of the scenario (A = m1 and B = m2 contributed 1000
\* each; 10 shares of s1 bought at 100, 600 allocated to A and 400 to B; s1
\* now at 120) calculateMemberShares reports 6 and 4 shares and the summary
\* reports availableCash 400 / 600, currentStockValue 720 / 480, costBasis
\* 600 / 400 and gainLoss 120 / 80.
ScenarioFigures ==
    (data = ScenarioSnapshot) =>
        /\ Called("calculateMemberShares") =>
              /\ result.status = "ok"
              /\ MapGet(MapGet(result.value, "m1"), "s1") = Num(6)
              /\ MapGet(MapGet(result.value, "m2"), "s1") = Num(4)
        /\ Called("calculatePortfolioSummary") =>
              /\ result.status = "ok"
              /\ [i \in DOMAIN Breakdown |-> Breakdown[i].memberId] = <<"m1", "m2">>
              /\ [i \in DOMAIN Breakdown |-> Breakdown[i].availableCash] = <<Num(400), Num(600)>>
              /\ [i \in DOMAIN Breakdown |-> Breakdown[i].currentStockValue] = <<Num(720), Num(480)>>
              /\ [i \in DOMAIN Breakdown |-> Breakdown[i].costBasis] = <<Num(600), Num(400)>>
              /\ [i \in DOMAIN Breakdown |-> Breakdown[i].gainLoss] = <<Num(120), Num(80)>>

\* the summary of the scenario has been computed
ScenarioSummarised ==
    /\ data = ScenarioSnapshot
    /\ Returned("calculatePortfolioSummary")
    /\ Len(Breakdown) = 2
    /\ Breakdown[1].gainLossPercentage = Num(20)

EmptySnapshot ==
    /\ members = <<>>
    /\ contributions = <<>>
    /\ stocks = <<>>
    /\ transactions = <<>>
    /\ allocations = <<>>

\* C13: on the empty snapshot calculatePortfolioSummary returns, without an
\* error, totalValue, totalCash, totalCostBasis, totalGainLoss and
\* totalGainLossPercentage all 0 and an empty memberBreakdown.
EmptySnapshotGivesZeros ==
    (EmptySnapshot /\ Called("calculatePortfolioSummary")) =>
        result = Ok([totalValue |-> Zero,
                     totalCostBasis |-> Zero,
                     totalGainLoss |-> Zero,
                     totalGainLossPercentage |-> Zero,
                     totalCash |-> Zero,
                     memberBreakdown |-> <<>>])

\* the summary of the empty snapshot has been computed
EmptySnapshotSummarised ==
    /\ EmptySnapshot
    /\ Called("calculatePortfolioSummary")
    /\ result.status # "none"

PricedStockIndexes == {k \in DOMAIN stocks : stocks[k].current_price # Null}

\* the value of member m's shares of the stocks whose price is known
ValueOfPricedStocks(m) ==
    SumOver(PricedStockIndexes,
            [k \in PricedStockIndexes |-> Mul(NetShares(m, stocks[k].id), stocks[k].current_price)])

\* C15: a stock whose current_price is null counts at price 0.  In the
\* summary each member's currentStockValue is the value of the shares of the
\* priced stocks alone, and gainLossPercentage is a finite number, 0 when the
\* cost basis is 0.  For a null-priced stock calculateStockWithOwnership
\* gives currentValue 0, value 0 for every listed member, gainLoss =
\* -costBasis and gainLossPercentage 0 when the cost basis is 0.  Neither
\* call fails because of the null price.
UnknownPriceCountsAsZero ==
    /\ (Returned("calculatePortfolioSummary")) =>
          \A i \in DOMAIN members :
              /\ Breakdown[i].currentStockValue = ValueOfPricedStocks(members[i].id)
              /\ IsFinite(Breakdown[i].gainLossPercentage)
              /\ EqZero(Breakdown[i].costBasis) => Breakdown[i].gainLossPercentage = Zero
    /\ (Returned("calculateStockWithOwnership") /\ call.stock.current_price = Null) =>
          /\ result.value.currentValue = Zero
          /\ \A i \in DOMAIN Ownership : Ownership[i].value = Zero
          /\ result.value.gainLoss = Neg(result.value.costBasis)
          /\ IsFinite(result.value.gainLossPercentage)
          /\ EqZero(result.value.costBasis) => result.value.gainLossPercentage = Zero
    /\ ( /\ Called("calculatePortfolioSummary") \/ Called("calculateStockWithOwnership")
         /\ \E k \in DOMAIN stocks : stocks[k].current_price = Null
         /\ AllocationMembersResolve )
       => result.status = "ok"

\* a member holds shares of a stock without a price and another member has
\* no cost basis
SharesOfUnpricedStockHeld ==
    /\ Returned("calculatePortfolioSummary")
    /\ \E i \in DOMAIN members : \E k \in DOMAIN stocks :
          /\ stocks[k].current_price = Null
          /\ NetShares(members[i].id, stocks[k].id).n > 0
          /\ Breakdown[i].currentStockValue = Zero
          /\ Breakdown[i].gainLoss.n < 0
    /\ \E i \in DOMAIN members :
          /\ EqZero(Breakdown[i].costBasis)
          /\ Breakdown[i].gainLossPercentage = Zero

\* the engine functions that read `allocations`
AllocationReaders ==
    {"calculateMemberCash", "calculateMemberShares", "calculateCostBasis",
     "calculatePortfolioSummary", "calculateStockWithOwnership", "calculateSellAllocations"}

\* C16: when an allocation names a member id that is not in `members`, every
\* engine function that reads the allocations reports a failure instead of
\* returning a result.
DanglingMemberIsReported ==
    (call.fn \in AllocationReaders /\ ~AllocationMembersResolve) => result.status # "ok"

IdsOfStocks == {stocks[k].id : k \in DOMAIN stocks}

TransactionStocksResolve ==
    \A i \in DOMAIN transactions : transactions[i].stock_id \in IdsOfStocks

\* C17: when a transaction names a stock id that is not in `stocks`,
\* calculatePortfolioSummary and the aggregators it uses report a failure
\* instead of returning a result.
DanglingStockIsReported ==
    ( /\ call.fn \in {"calculatePortfolioSummary", "calculateMemberCash",
                      "calculateMemberShares", "calculateCostBasis"}
      /\ ~TransactionStocksResolve )
    => result.status # "ok"

IdsOfTransactions == {transactions[i].id : i \in DOMAIN transactions}

AllReferencesResolve ==
    /\ AllocationMembersResolve
    /\ TransactionStocksResolve
    /\ \A j \in DOMAIN allocations : allocations[j].transaction_id \in IdsOfTransactions
    /\ \A i \in DOMAIN contributions : contributions[i].member_id \in IdsOfMembers

\* the percentages of the allocations of transaction t
PercentageSum(t) ==
    LET J == {j \in DOMAIN allocations : allocations[j].transaction_id = t}
    IN  SumOver(J, [j \in J |-> allocations[j].percentage])

\* C18: when every member, transaction and stock reference of the snapshot
\* resolves, every engine function returns a result, whatever the signs of
\* the resulting cash and shares and whatever the allocations of a
\* transaction sum to, and cash, shares and cost basis are the plain sums
\* over the ledger, uncorrected.
InconsistentInputComputedThrough ==
    (AllReferencesResolve /\ ~Idle) =>
        /\ result.status = "ok"
        /\ Called("calculateMemberCash") =>
              \A m \in IdsOfMembers : MapGet(result.value, m).available_cash = NetCash(m)
        /\ Called("calculateMemberShares") =>
              \A m \in IdsOfMembers : \A s \in IdsOfStocks :
                  GetGetOrZero(result.value, m, s) = NetShares(m, s)
        /\ Called("calculateCostBasis") =>
              \A m \in IdsOfMembers : \A s \in IdsOfStocks :
                  GetGetOrZero(result.value, m, s) = NetAmount(m, s)
        /\ Called("calculatePortfolioSummary") =>
              \A i \in DOMAIN members :
                  /\ Breakdown[i].availableCash = NetCash(members[i].id)
                  /\ Breakdown[i].currentStockValue = StockValueOf(members[i].id)
                  /\ Breakdown[i].costBasis = CostBasisOf(members[i].id)

\* a summary of a ledger in which a member is overdrawn, a member has sold
\* shares they never held and a transaction is only partly allocated
OverdrawnAndOversoldSummarised ==
    /\ AllReferencesResolve
    /\ Returned("calculatePortfolioSummary")
    /\ \E i \in DOMAIN members : Breakdown[i].availableCash.n < 0
    /\ \E i \in DOMAIN members : \E s \in IdsOfStocks : NetShares(members[i].id, s).n < 0
    /\ \E t \in IdsOfTransactions : PercentageSum(t) # Num(1)

(***************************************************************************)
(* Vocabulary of the properties of the form.                               *)
(***************************************************************************)
\* this step is the one in which a running handleSubmit ends
SubmitFinishes == form.pc # "idle" /\ form'.pc = "idle"

IsStoredAfter(id) == \E k \in DOMAIN transactions' : transactions'[k].id = id

AllocationIndexesAfter(id) == {j \in DOMAIN allocations' : allocations'[j].transaction_id = id}

\* C19: handleSubmit is all-or-nothing.  When it ends, the ledger holds either
\* the transaction it inserted together with every allocation row it built
\* for it, or neither the transaction nor any allocation of it; when the
\* insert of the transaction failed the ledger is as it was.
SubmitIsAllOrNothing ==
    [][SubmitFinishes =>
          IF form.transaction = "" THEN UNCHANGED Ledger
          ELSE LET rows == AllocationRows(allocationInserts(form, form.transaction))
               IN  \/ /\ IsStoredAfter(form.transaction)
                      /\ \A i \in DOMAIN rows :
                            \E j \in DOMAIN allocations' : allocations'[j] = rows[i]
                   \/ /\ ~IsStoredAfter(form.transaction)
                      /\ AllocationIndexesAfter(form.transaction) = {}]_vars

\* C20: when handleSubmit ends having stored a transaction, the stored
\* allocations of that transaction have amounts that sum to quantity *
\* price_per_share within 0.01 and percentages in (0, 1]; and while the
\* allocated total differs from the transaction total by more than 0.01 no
\* step from the idle form stores anything.
SubmitStoresMatchingAllocations ==
    [][ /\ (SubmitFinishes /\ form.transaction # "") =>
              \A k \in DOMAIN transactions' :
                  transactions'[k].id = form.transaction =>
                      LET J == AllocationIndexesAfter(form.transaction)
                          sum == SumOver(J, [j \in J |-> allocations'[j].amount])
                          total == Mul(transactions'[k].quantity,
                                       transactions'[k].price_per_share)
                      IN  /\ ~Gt(MathAbs(Sub(sum, total)), Tolerance)
                          /\ \A j \in J :
                                /\ GtZero(allocations'[j].percentage)
                                /\ ~Gt(allocations'[j].percentage, Num(1))
        /\ (form.pc = "idle" /\ AllocationMismatch(form)) => UNCHANGED Ledger ]_vars

\* some member of the summary has a negative available cash or cost basis
MemberInDeficit ==
    \E i \in DOMAIN Breakdown :
        Breakdown[i].availableCash.n < 0 \/ Breakdown[i].costBasis.n < 0

\* C21 as stated: in every summary in which some member's available cash or
\* cost basis is negative, totalGainLoss differs from the sum of the members'
\* gainLoss.
TotalGainLossDiffersFromMemberGains ==
    (Returned("calculatePortfolioSummary") /\ MemberInDeficit) =>
        result.value.totalGainLoss # SumOfBreakdown("gainLoss")

\* C21 as amended: in every summary, also when a member's available cash or
\* cost basis is negative, totalGainLoss (totalValue - totalCash -
\* totalCostBasis) equals the sum of the members' gainLoss.
TotalGainLossIsSumOfMemberGains ==
    Returned("calculatePortfolioSummary") =>
        result.value.totalGainLoss = SumOfBreakdown("gainLoss")

\* one member is overdrawn, one has a negative cost basis, and the portfolio
\* holds cash and shows a gain or a loss
DeficitInCashAndBasisSummarised ==
    /\ Returned("calculatePortfolioSummary")
    /\ \E i \in DOMAIN Breakdown : Breakdown[i].availableCash.n < 0
    /\ \E i \in DOMAIN Breakdown : Breakdown[i].costBasis.n < 0
    /\ result.value.totalCash.n # 0
    /\ result.value.totalGainLoss.n # 0

\* the sequences that hold the elements of s in another order
Reorderings(s) ==
    {[i \in DOMAIN s |-> s[p[i]]] :
        p \in {q \in [DOMAIN s -> DOMAIN s] : \A i, j \in DOMAIN s : q[i] = q[j] => i = j}}

\* the snapshot with `transactions` and `allocations` in any order
Reordered ==
    {[data EXCEPT !.transactions = t, !.allocations = a] :
        t \in Reorderings(transactions), a \in Reorderings(allocations)}

\* what a Map, and a Map of Maps, answers to get(), whatever the insertion order
Lookup(m) == [k \in MapKeys(m) |-> MapGet(m, k)]

LookupOfMaps(m) == [k \in MapKeys(m) |-> Lookup(MapGet(m, k))]

\* C22: the results of calculateMemberCash, calculateMemberShares and
\* calculateCostBasis (what their maps answer for every key) and the whole
\* result of calculatePortfolioSummary are the same for every order of
\* `transactions` and every order of `allocations`, sells listed before
\* their buys included.
ResultsIgnoreLedgerOrder ==
    /\ Called("calculateMemberCash") =>
          \A d \in Reordered : Ok(calculateMemberCash(d)) = result
    /\ Called("calculateMemberShares") =>
          \A d \in Reordered :
              /\ calculateMemberShares(d).status = result.status
              /\ result.status = "ok" =>
                    LookupOfMaps(calculateMemberShares(d).value) = LookupOfMaps(result.value)
    /\ Called("calculateCostBasis") =>
          \A d \in Reordered :
              LookupOfMaps(calculateCostBasis(d)) = LookupOfMaps(result.value)
    /\ Called("calculatePortfolioSummary") =>
          \A d \in Reordered : calculatePortfolioSummary(d) = result

\* a member's sale of a stock is listed before the larger purchase it sells
\* from, and so is its allocation
SaleListedBeforePurchase ==
    /\ Returned("calculateMemberShares")
    /\ Len(transactions) = 2 /\ Len(allocations) = 2
    /\ transactions[1].type = "sell" /\ transactions[2].type = "buy"
    /\ transactions[1].stock_id = transactions[2].stock_id
    /\ allocations[1].transaction_id = transactions[1].id
    /\ allocations[2].transaction_id = transactions[2].id
    /\ allocations[1].member_id = allocations[2].member_id
    /\ allocations[1].member_id \in IdsOfMembers
    /\ NetShares(allocations[1].member_id, transactions[1].stock_id).n > 0

\* what the function named in call c returns on snapshot d
OutcomeOf(c, d) ==
    CASE c.fn = "calculateMemberCash" -> Ok(calculateMemberCash(d))
      [] c.fn = "calculateMemberShares" -> calculateMemberShares(d)
      [] c.fn = "calculateOwnershipPercentages" -> calculateOwnershipPercentages(d)
      [] c.fn = "calculateCostBasis" -> Ok(calculateCostBasis(d))
      [] c.fn = "calculatePortfolioSummary" -> calculatePortfolioSummary(d)
      [] c.fn = "calculateStockWithOwnership" -> calculateStockWithOwnership(c.stock, d)
      [] c.fn = "calculateSellAllocations" ->
             calculateSellAllocations(c.stockId, c.quantity, c.pricePerShare, d)

\* C23: no engine function modifies its input.  A step that calls a function
\* leaves members, contributions, stocks, transactions and allocations as
\* they were, the `stock` argument of calculateStockWithOwnership is still an
\* element of `stocks` afterwards, and the result is what the function gives
\* on this snapshot and these arguments alone; when the caller is done
\* nothing of the call is kept.
EngineLeavesInputAlone ==
    [][ /\ (Idle /\ ~Idle') =>
              /\ UNCHANGED Snapshot
              /\ call'.fn = "calculateStockWithOwnership" =>
                    \E i \in DOMAIN stocks' : stocks'[i] = call'.stock
              /\ result' = OutcomeOf(call', data)
        /\ (~Idle /\ Idle') =>
              /\ UNCHANGED Snapshot
              /\ call' = NoCall
              /\ result' = NoResult ]_vars

\* calculateStockWithOwnership has returned the figures of a stock without a
\* price that a member holds
UnpricedStockWithHolderReturned ==
    /\ Returned("calculateStockWithOwnership")
    /\ call.stock.current_price = Null
    /\ Ownership # <<>>
    /\ \E i \in DOMAIN stocks : stocks[i] = call.stock

\* no two of the rows name the same member
DistinctMembers(rows, field) ==
    \A i, j \in DOMAIN rows : rows[i][field] = rows[j][field] => i = j

\* C24: in the new-transaction form no two allocation rows name the same
\* member, whatever was added, removed, changed or proposed by
\* autoAllocateSell, and the rows handleSubmit builds for the insert name
\* each member at most once.
RowsNameDistinctMembers ==
    /\ DistinctMembers(form.allocations, "memberId")
    /\ DistinctMembers(allocationInserts(form, form.transaction), "member_id")
    /\ DistinctMembers(SelectSeq(allocations, LAMBDA a : a.transaction_id # HeldPurchase.id),
                       "member_id")

\* a sale with a row for every member, the first row not the first member's,
\* is being stored
RowsOfAllMembersSubmitted ==
    /\ form.pc = "allocations"
    /\ form.transactionType = "sell"
    /\ Len(form.allocations) = Len(members)
    /\ form.allocations[1].memberId # members[1].id
    /\ Len(allocationInserts(form, form.transaction)) > 1

\* the allocation rows that this step stores on a buy
BuyRowsStoredByStep ==
    {j \in DOMAIN allocations' :
        /\ j \notin DOMAIN allocations
        /\ \E k \in DOMAIN transactions' :
              /\ transactions'[k].id = allocations'[j].transaction_id
              /\ transactions'[k].type = "buy"}

\* C25: a buy is allocated from each member's available cash.  No step
\* that stores allocations stores a buy allocation whose amount exceeds the
\* available cash that its member had before, and after such a step no
\* member's available cash is negative.
BuysAreAllocatedFromCash ==
    [][ allocations' # allocations =>
            /\ \A j \in BuyRowsStoredByStep :
                  ~Gt(allocations'[j].amount, NetCash(allocations'[j].member_id))
            /\ (\A m \in IdsOfMembers : NetCash(m).n >= 0)' ]_vars

\* the stock selected in the form has holders, none of them with a negative count
SelectedStockSoundlyHeld ==
    /\ \A m \in IdsOfMembers : NetShares(m, form.selectedStock).n >= 0
    /\ \E m \in IdsOfMembers : NetShares(m, form.selectedStock).n > 0

\* C26: when autoAllocateSell has proposed the rows of a sale of a stock whose
\* holders all have non-negative shares, at least one of them a positive
\* count, the amounts in the form sum to quantity * pricePerShare within
\* 0.01: handleSubmit would not answer "Allocation mismatch".
SellProposalCanBeSubmitted ==
    [][ ( /\ form.transactionType = "sell"
          /\ form.selectedStock # "" /\ form.quantity # Empty /\ form.pricePerShare # Empty
          /\ SelectedStockSoundlyHeld
          /\ autoAllocateSell )
        => ~AllocationMismatch(form') ]_vars

\* the row of the stock with this symbol
RowOf(rows, symbol) == rows[CHOOSE i \in DOMAIN rows : rows[i].symbol = symbol]

\* this step sends the response of the refresh request
RefreshAnswers == result.status = "none" /\ result'.status # "none"

\* C27: the single-stock price refresh changes a stored price only on full
\* success.  A request without a user is answered 401, one for a symbol that
\* is not stored 404, one whose quote fetch fails 500, and no step of a
\* request answered otherwise than 200 changes current_price or last_updated
\* of any stock; when the answer is 200 the current_price of the stock is
\* exactly the price of the quote fetched.
RefreshStoresOnlyOnSuccess ==
    [][ /\ stocks' # stocks => result'.status = "200"
        /\ RefreshAnswers =>
              /\ call'.user = "none" => result'.status = "401"
              /\ ( /\ call'.user # "none"
                    /\ \A i \in DOMAIN stocks : stocks[i].symbol # call'.symbol )
                 => result'.status = "404"
              /\ (call.fn # "none" /\ call.pc = "quote") => result'.status = "500"
              /\ result'.status = "200" =>
                    RowOf(stocks', call'.symbol).current_price = call'.quote.price ]_vars

\* the total quantity of the transactions of one type on stock s
QuantityOn(type, s) ==
    LET I == {i \in DOMAIN transactions :
                 transactions[i].type = type /\ transactions[i].stock_id = s}
    IN  SumOver(I, [i \in I |-> transactions[i].quantity])

EveryTransactionFullyShared ==
    \A i \in DOMAIN transactions : PercentageSum(transactions[i].id) = Num(1)

\* C28: shares are conserved.  When every allocation names a member of
\* `members` and the percentages of each transaction's allocations sum to 1,
\* the share counts calculateMemberShares gives the members for a security
\* sum to the quantity bought of it minus the quantity sold.
SharesAreConserved ==
    (Called("calculateMemberShares") /\ AllocationMembersResolve
        /\ EveryTransactionFullyShared) =>
        /\ result.status = "ok"
        /\ \A s \in StockIds :
              SumOver(IdsOfMembers, [m \in IdsOfMembers |-> GetGetOrZero(result.value, m, s)])
                  = Sub(QuantityOn("buy", s), QuantityOn("sell", s))

\* one member bought a stock and another sold a different quantity of it,
\* each transaction allocated in full
PurchaseAndSaleByTwoMembers ==
    /\ Returned("calculateMemberShares")
    /\ AllocationMembersResolve
    /\ EveryTransactionFullyShared
    /\ \E s \in StockIds :
          /\ GtZero(QuantityOn("buy", s))
          /\ GtZero(QuantityOn("sell", s))
          /\ QuantityOn("buy", s) # QuantityOn("sell", s)
          /\ \E m \in IdsOfMembers : GetGetOrZero(result.value, m, s).n < 0

ContributionMembersResolve ==
    \A i \in DOMAIN contributions : contributions[i].member_id \in IdsOfMembers

\* the amounts of the allocations of transaction i sum to quantity * price_per_share
FullyPaid(i) ==
    LET J == {j \in DOMAIN allocations : allocations[j].transaction_id = transactions[i].id}
    IN  AmountSum(J) = Mul(transactions[i].quantity, transactions[i].price_per_share)

\* the sum of quantity * price_per_share over the transactions of one type
TotalOfTransactions(type) ==
    LET I == {i \in DOMAIN transactions : transactions[i].type = type}
    IN  SumOver(I, [i \in I |-> Mul(transactions[i].quantity, transactions[i].price_per_share)])

TotalContributions ==
    SumOver(DOMAIN contributions, [i \in DOMAIN contributions |-> contributions[i].amount])

\* C29: cash is never fabricated.  When every contribution and every
\* allocation names a member of `members` and the amounts of each
\* transaction's allocations sum to quantity * price_per_share, the members'
\* available_cash sums to the contributions minus the totals of the buy
\* transactions plus the totals of the sell transactions.
CashIsConserved ==
    ( /\ Called("calculateMemberCash")
      /\ ContributionMembersResolve
      /\ AllocationMembersResolve
      /\ \A i \in DOMAIN transactions : FullyPaid(i) ) =>
        /\ result.status = "ok"
        /\ SumOver(IdsOfMembers,
                   [m \in IdsOfMembers |-> MapGet(result.value, m).available_cash])
              = Add(Sub(TotalContributions, TotalOfTransactions("buy")),
                    TotalOfTransactions("sell"))

\* several members contributed and a sale was paid out in full
ContributionsAndPaidSale ==
    /\ Returned("calculateMemberCash")
    /\ ContributionMembersResolve
    /\ AllocationMembersResolve
    /\ \A i \in DOMAIN transactions : FullyPaid(i)
    /\ GtZero(TotalContributions)
    /\ GtZero(TotalOfTransactions("sell"))
    /\ Cardinality(IdsOfMembers) > 1

\* the figures calculateStockWithOwnership gives for the k-th stock of the snapshot
StockView(k) == calculateStockWithOwnership(stocks[k], data).value

SumOfStockViews(field) ==
    SumOver(DOMAIN stocks, [k \in DOMAIN stocks |-> StockView(k)[field]])

\* C30: the per-security view and the portfolio view agree.  In every
\* snapshot the costBasis figures of calculateStockWithOwnership over the
\* stocks sum to the totalCostBasis of calculatePortfolioSummary, and their
\* currentValue figures sum to the sum of the members' currentStockValue.
StockViewsAgreeWithSummary ==
    Returned("calculatePortfolioSummary") =>
        /\ SumOfStockViews("costBasis") = result.value.totalCostBasis
        /\ SumOfStockViews("currentValue") = SumOfBreakdown("currentStockValue")

====
